---- MODULE Spec2Model ----
(***************************************************************************)
(* A model of train.py: the entry point main() that parses the three      *)
(* argument groups, configures logging and the seed, loads the dataset    *)
(* from remote storage, selects the (generator, discriminator) classes,   *)
(* instantiates them and hands everything to the Trainer.                 *)
(*                                                                         *)
(* main() is entered once per process: by the __main__ guard, or by       *)
(* _mp_fn(index) in each process that xla_spawn starts.  Every process    *)
(* gets the same invocation arguments and sees the same storage and the   *)
(* same registry; network failures are per call.                          *)
(***************************************************************************)
EXTENDS Integers, Sequences, FiniteSets, TLC

VARIABLES argv, proc

vars == <<argv, proc>>

(* ------------------------------ bounds -------------------------------- *)

\* seeds an invocation may carry: 0..MaxSeed
MaxSeed == 1
\* IPC files under the dataset directory
NumFiles == 2
\* rows in each IPC file
RowsPerFile == 2

(* ----------------------------- constants ------------------------------ *)

MODEL_SIZES == {"small", "base", "large"}
MODEL_TYPES == {"AMCLR", "ELECTRA", "AMOS"}

\* the processes that run main(): the ones _mp_fn is called in
Runs == {"p0", "p1"}

\* Python's None, as the value of an Optional[str] field left at its default
None == "<None>"

\* a local of main() that is not bound yet
NoObj == [id |-> 0]
NoStr == "<unbound>"
NoInt == -1
NoClass == [module |-> NoStr, name |-> NoStr]

\* the global RNG before set_seed, and after set_seed(n)
Unseeded == [seeded |-> FALSE]
Seeded(n) == [seeded |-> TRUE, seed |-> n]

\* str(x) as an f-string interpolates it
Str(x) == IF x = None THEN "None" ELSE x

\* the divisor of the log line's "M params"
Mega == 1048576

(* --------------------------- the environment -------------------------- *)

\* values the three fields may take on the command line: the documented
\* ones, one undocumented one, and the field being absent
SizeInputs == MODEL_SIZES \cup {"tiny", None}
TypeInputs == MODEL_TYPES \cup {"BERT", None}
NameInputs == {"gs://bucket/data", "gs://bucket/missing", None}

\* the object storage: directory -> its IPC files, each a sequence of rows
Store ==
  [d \in {"gs://bucket/data"} |->
     [f \in 1..NumFiles |-> [k \in 1..RowsPerFile |-> f * 100 + k]]]

\* the pretrained registry: the keys it knows, and what it returns
RegistryKeys ==
  {"google/electra-" \o s \o "-" \o k :
      s \in MODEL_SIZES, k \in {"discriminator", "generator"}}

SpecialIds == {0, 100, 101, 102, 103}

RECURSIVE Flatten(_)
Flatten(files) ==
  IF files = <<>> THEN <<>> ELSE Head(files) \o Flatten(Tail(files))


\* ElectraConfig.from_pretrained(key) / AutoTokenizer.from_pretrained(key):
\* what the registry holds under a key it knows
RegistryConfig(key) == [name_or_path |-> key]
RegistryTokenizer(key) == [name_or_path |-> key, all_special_ids |-> SpecialIds]

\* the number of weights a model built from a registry configuration has
ConfigParams(config) ==
  CASE config.name_or_path = "google/electra-small-discriminator" -> 13548800
    [] config.name_or_path = "google/electra-small-generator" -> 13548800
    [] config.name_or_path = "google/electra-base-discriminator" -> 108891648
    [] config.name_or_path = "google/electra-base-generator" -> 33511168
    [] config.name_or_path = "google/electra-large-discriminator" -> 334092288
    [] config.name_or_path = "google/electra-large-generator" -> 50999296
    [] OTHER -> 0

\* sum(p.numel() for p in m.parameters()): a discriminator holds its generator
\* as a sub-module, so its parameters include the generator's
Numel(m) ==
  IF m = NoObj THEN 0
  ELSE ConfigParams(m.config)
       + (IF "generator" \in DOMAIN m THEN ConfigParams(m.generator.config) ELSE 0)

\* f"{n / 2**20:.2f}": n / 2^20 is exact in binary floating point, and the
\* format rounds the exact value to two decimals, ties to even.  The result is
\* the printed number in hundredths ("12.92" is 1292).
FormatM(n) ==
  LET whole == n \div Mega
      rem == n % Mega
      q == (rem * 100) \div Mega
      t == (rem * 100) % Mega
      up == 2 * t > Mega \/ (2 * t = Mega /\ q % 2 = 1)
  IN whole * 100 + (IF up THEN q + 1 ELSE q)

(* ------------------------- the state of a run -------------------------- *)

\* the statements of main(), in program order
Order ==
  << "parse_args", "basicConfig", "setLevel", "log_args", "set_seed",
     "gcsfs", "ds_dataset", "to_table", "Dataset",
     "config_paths", "select_model", "tokenizer", "init_gen", "init_disc",
     "count_params", "log_params", "Trainer", "train" >>

\* the locals of main() before its first statement, and the process-wide
\* state main() writes: the logging configuration, the RNG, standard output
InitialProc ==
  [ pc |-> "parse_args", trace |-> <<>>, error |-> "none", nextId |-> 1,
    model_args |-> NoObj, data_args |-> NoObj, training_args |-> NoObj,
    handlers |-> FALSE, level |-> "NOTSET", stdout |-> <<>>,
    rng |-> Unseeded,
    gcs |-> NoObj, arrow_dataset |-> NoObj, table |-> NoObj, datasets |-> NoObj,
    disc_config_path |-> NoStr, gen_config_path |-> NoStr,
    disc_model |-> NoClass, gen_model |-> NoClass,
    requests |-> <<>>,
    tokenizer |-> NoObj, gen |-> NoObj, disc |-> NoObj,
    n_params |-> NoInt, trainer |-> NoObj ]

Init ==
  /\ argv \in [ model_size : SizeInputs, model_type : TypeInputs,
                dataset_name : NameInputs, seed : 0..MaxSeed,
                hp_ok : BOOLEAN ]
  /\ proc = [r \in Runs |-> InitialProc]

\* the statement at p.pc has run and control moves on: p is the frame after it
Advance(r, next, p) ==
  /\ proc' = [proc EXCEPT ![r] =
                [p EXCEPT !.pc = next, !.trace = Append(@, proc[r].pc)]]
  /\ UNCHANGED argv

\* the statement at pc raised, leaving the frame p: nothing in main() catches,
\* the exception leaves main() and the process ends
Raise(r, p, err) ==
  /\ proc' = [proc EXCEPT ![r] =
                [p EXCEPT !.pc = "failed", !.error = err,
                          !.trace = Append(@, proc[r].pc)]]
  /\ UNCHANGED argv

\* logger.info(msg): the module logger handles a record at INFO only once its
\* level is set (the root's default is WARNING), and the record is written only
\* if the root has a handler (the last-resort handler writes WARNING and above)
LoggerInfo(p, msg) ==
  IF p.level = "INFO" /\ p.handlers
    THEN [p EXCEPT !.stdout = Append(@, msg)]
    ELSE p

\* a request to the pretrained registry is on record, answered or not
Request(p, key) == [p EXCEPT !.requests = Append(@, key)]

(* ---------------------------- the statements --------------------------- *)

\* HfArgumentParser(...).parse_args_into_dataclasses(): the three fields of
\* ModelArguments and DataTrainingArguments are Optional[str] with default
\* None and no choices, so any string, or nothing, is accepted for them; the
\* parse fails only on the TrainingArguments schema or on unknown flags
ParseArgs(r) ==
  /\ proc[r].pc = "parse_args"
  /\ \/ /\ argv.hp_ok
        /\ Advance(r, "basicConfig",
             [proc[r] EXCEPT
                !.model_args = [id |-> proc[r].nextId,
                                model_size |-> argv.model_size,
                                model_type |-> argv.model_type],
                !.data_args = [id |-> proc[r].nextId + 1,
                               dataset_name |-> argv.dataset_name],
                !.training_args = [id |-> proc[r].nextId + 2,
                                   seed |-> argv.seed],
                !.nextId = @ + 3])
     \/ /\ ~argv.hp_ok
        /\ Raise(r, proc[r], "ConfigurationError")

BasicConfig(r) ==
  /\ proc[r].pc = "basicConfig"
  /\ Advance(r, "setLevel", [proc[r] EXCEPT !.handlers = TRUE])

SetLevel(r) ==
  /\ proc[r].pc = "setLevel"
  /\ Advance(r, "log_args", [proc[r] EXCEPT !.level = "INFO"])

LogTrainingArgs(r) ==
  /\ proc[r].pc = "log_args"
  /\ Advance(r, "set_seed",
       LoggerInfo(proc[r], [msg |-> "Training/evaluation parameters",
                            value |-> proc[r].training_args.seed]))

\* the set_seed call left out
SetSeedSkipped(r) ==
  /\ proc[r].pc = "set_seed"
  /\ Advance(r, "gcsfs", proc[r])

SetSeed(r) ==
  /\ proc[r].pc = "set_seed"
  /\ Advance(r, "gcsfs", [proc[r] EXCEPT !.rng = Seeded(proc[r].training_args.seed)])

\* gcsfs.GCSFileSystem(project=...): the first contact with remote storage
OpenGCS(r) ==
  /\ proc[r].pc = "gcsfs"
  /\ \/ Advance(r, "ds_dataset",
          [proc[r] EXCEPT !.gcs = [id |-> proc[r].nextId,
                                   project |-> "tribal-octane-442108-e7"],
                          !.nextId = @ + 1])
     \/ Raise(r, proc[r], "DataLoadError")

\* ds.dataset(dataset_name, filesystem=gcs, format='ipc', partitioning='hive'):
\* succeeds only for a directory the storage holds (None, or a path that is
\* not there, raises), and may fail on the network for any
ArrowDataset(r) ==
  /\ proc[r].pc = "ds_dataset"
  /\ LET name == proc[r].data_args.dataset_name IN
     \/ /\ name \in DOMAIN Store
        /\ Advance(r, "to_table",
             [proc[r] EXCEPT
                !.arrow_dataset = [id |-> proc[r].nextId, files |-> Store[name],
                                   filesystem |-> proc[r].gcs,
                                   format |-> "ipc", partitioning |-> "hive"],
                !.nextId = @ + 1])
     \/ Raise(r, proc[r], "DataLoadError")

\* ToTable inside a try/except that lets the run go on without a table
ToTableSwallow(r) ==
  /\ proc[r].pc = "to_table"
  /\ \/ Advance(r, "Dataset",
          [proc[r] EXCEPT
             !.table = [id |-> proc[r].nextId,
                        rows |-> Flatten(proc[r].arrow_dataset.files)],
             !.nextId = @ + 1])
     \/ Advance(r, "Dataset", proc[r])

\* arrow_dataset.to_table(): reads every file, in full
ToTable(r) ==
  /\ proc[r].pc = "to_table"
  /\ \/ Advance(r, "Dataset",
          [proc[r] EXCEPT
             !.table = [id |-> proc[r].nextId,
                        rows |-> Flatten(proc[r].arrow_dataset.files)],
             !.nextId = @ + 1])
     \/ Raise(r, proc[r], "DataLoadError")

WrapDataset(r) ==
  /\ proc[r].pc = "Dataset"
  /\ Advance(r, "config_paths",
       [proc[r] EXCEPT
          !.datasets = [id |-> proc[r].nextId, arrow_table |-> proc[r].table],
          !.nextId = @ + 1])

ConfigPaths(r) ==
  /\ proc[r].pc = "config_paths"
  /\ LET size == Str(proc[r].model_args.model_size) IN
     Advance(r, "select_model",
       [proc[r] EXCEPT
          !.disc_config_path = "google/electra-" \o size \o "-discriminator",
          !.gen_config_path = "google/electra-" \o size \o "-generator"])


\* SelectModel with the two Sims* imports exchanged: AMOS takes model_electra
SelectModelSwapped(r) ==
  /\ proc[r].pc = "select_model"
  /\ LET type == proc[r].model_args.model_type
         from == IF type = "AMOS" THEN "src.amclr.model_electra"
                                  ELSE "src.amclr.model_amos" IN
     IF type = "AMCLR"
       THEN Advance(r, "tokenizer",
              [proc[r] EXCEPT
                 !.disc_model = [module |-> "src.amclr.model", name |-> "AMCLR"],
                 !.gen_model = [module |-> "src.amclr.model", name |-> "AMCLRMLM"]])
       ELSE Advance(r, "tokenizer",
              [proc[r] EXCEPT
                 !.disc_model = [module |-> from, name |-> "SimsElectra"],
                 !.gen_model = [module |-> from, name |-> "SimsMLM"]])

\* SelectModel that rejects a model_type outside MODEL_TYPES instead of
\* falling through to the ELECTRA imports
SelectModelStrict(r) ==
  /\ proc[r].pc = "select_model"
  /\ LET type == proc[r].model_args.model_type
         from == IF type = "AMOS" THEN "src.amclr.model_amos"
                                  ELSE "src.amclr.model_electra" IN
     IF type = "AMCLR"
       THEN Advance(r, "tokenizer",
              [proc[r] EXCEPT
                 !.disc_model = [module |-> "src.amclr.model", name |-> "AMCLR"],
                 !.gen_model = [module |-> "src.amclr.model", name |-> "AMCLRMLM"]])
       ELSE IF type \in MODEL_TYPES
         THEN Advance(r, "tokenizer",
                [proc[r] EXCEPT
                   !.disc_model = [module |-> from, name |-> "SimsElectra"],
                   !.gen_model = [module |-> from, name |-> "SimsMLM"]])
         ELSE Raise(r, proc[r], "ModelResolutionError")

\* SelectModel whose AMOS branch imports only SimsElectra from model_amos and
\* takes SimsMLM from model_electra
SelectModelMixed(r) ==
  /\ proc[r].pc = "select_model"
  /\ LET type == proc[r].model_args.model_type
         from == IF type = "AMOS" THEN "src.amclr.model_amos"
                                  ELSE "src.amclr.model_electra" IN
     IF type = "AMCLR"
       THEN Advance(r, "tokenizer",
              [proc[r] EXCEPT
                 !.disc_model = [module |-> "src.amclr.model", name |-> "AMCLR"],
                 !.gen_model = [module |-> "src.amclr.model", name |-> "AMCLRMLM"]])
       ELSE Advance(r, "tokenizer",
              [proc[r] EXCEPT
                 !.disc_model = [module |-> from, name |-> "SimsElectra"],
                 !.gen_model = [module |-> "src.amclr.model_electra",
                                name |-> "SimsMLM"]])

\* the three-way dispatch on model_type, and the imports it makes
SelectModel(r) ==
  /\ proc[r].pc = "select_model"
  /\ LET type == proc[r].model_args.model_type IN
     \/ /\ type = "AMCLR"
        /\ Advance(r, "tokenizer",
             [proc[r] EXCEPT
                !.disc_model = [module |-> "src.amclr.model", name |-> "AMCLR"],
                !.gen_model = [module |-> "src.amclr.model", name |-> "AMCLRMLM"]])
     \/ /\ type # "AMCLR"
        /\ type = "AMOS"
        /\ Advance(r, "tokenizer",
             [proc[r] EXCEPT
                !.disc_model = [module |-> "src.amclr.model_amos",
                                name |-> "SimsElectra"],
                !.gen_model = [module |-> "src.amclr.model_amos",
                               name |-> "SimsMLM"]])
     \/ /\ type # "AMCLR"
        /\ type # "AMOS"
        /\ Advance(r, "tokenizer",
             [proc[r] EXCEPT
                !.disc_model = [module |-> "src.amclr.model_electra",
                                name |-> "SimsElectra"],
                !.gen_model = [module |-> "src.amclr.model_electra",
                               name |-> "SimsMLM"]])

\* AutoTokenizer.from_pretrained(disc_config_path): answered only for a key the
\* registry knows, and the request may fail on the network for any
LoadTokenizer(r) ==
  /\ proc[r].pc = "tokenizer"
  /\ LET key == proc[r].disc_config_path
         asked == Request(proc[r], key) IN
     \/ /\ key \in RegistryKeys
        /\ Advance(r, "init_gen",
             [asked EXCEPT
                !.tokenizer = [id |-> proc[r].nextId] @@ RegistryTokenizer(key),
                !.nextId = @ + 1])
     \/ Raise(r, asked, "ModelResolutionError")

\* InitGen that falls back to the small generator's configuration when the
\* lookup fails
InitGenFallback(r) ==
  /\ proc[r].pc = "init_gen"
  /\ LET key == proc[r].gen_config_path
         asked == Request(proc[r], key) IN
     \E got \in {k \in {key} : k \in RegistryKeys}
            \cup {"google/electra-small-generator"} :
       Advance(r, "init_disc",
         [asked EXCEPT
            !.gen = [id |-> proc[r].nextId, cls |-> proc[r].gen_model,
                     config |-> RegistryConfig(got),
                     special_ids |-> proc[r].tokenizer.all_special_ids,
                     init_rng |-> proc[r].rng],
            !.nextId = @ + 1])

\* gen = gen_model(ElectraConfig.from_pretrained(gen_config_path),
\*                 tokenizer.all_special_ids)
\* the weights are drawn from the global RNG as it stands
InitGen(r) ==
  /\ proc[r].pc = "init_gen"
  /\ LET key == proc[r].gen_config_path
         asked == Request(proc[r], key) IN
     \/ /\ key \in RegistryKeys
        /\ Advance(r, "init_disc",
             [asked EXCEPT
                !.gen = [id |-> proc[r].nextId, cls |-> proc[r].gen_model,
                         config |-> RegistryConfig(key),
                         special_ids |-> proc[r].tokenizer.all_special_ids,
                         init_rng |-> proc[r].rng],
                !.nextId = @ + 1])
     \/ Raise(r, asked, "ModelResolutionError")

\* disc = disc_model(ElectraConfig.from_pretrained(disc_config_path),
\*                   tokenizer.all_special_ids, gen)
InitDisc(r) ==
  /\ proc[r].pc = "init_disc"
  /\ LET key == proc[r].disc_config_path
         asked == Request(proc[r], key) IN
     \/ /\ key \in RegistryKeys
        /\ Advance(r, "count_params",
             [asked EXCEPT
                !.disc = [id |-> proc[r].nextId, cls |-> proc[r].disc_model,
                          config |-> RegistryConfig(key),
                          special_ids |-> proc[r].tokenizer.all_special_ids,
                          generator |-> proc[r].gen,
                          init_rng |-> proc[r].rng],
                !.nextId = @ + 1])
     \/ Raise(r, asked, "ModelResolutionError")

CountParams(r) ==
  /\ proc[r].pc = "count_params"
  /\ Advance(r, "log_params", [proc[r] EXCEPT !.n_params = Numel(proc[r].disc)])

LogParams(r) ==
  /\ proc[r].pc = "log_params"
  /\ Advance(r, "Trainer",
       LoggerInfo(proc[r], [msg |-> "Training new model from scratch - Total size",
                            value |-> FormatM(proc[r].n_params)]))

\* the Trainer given the generator instead of the discriminator
InitTrainerWrongModel(r) ==
  /\ proc[r].pc = "Trainer"
  /\ Advance(r, "train",
       [proc[r] EXCEPT
          !.trainer = [id |-> proc[r].nextId, model |-> proc[r].gen,
                       args |-> proc[r].training_args,
                       train_dataset |-> proc[r].datasets,
                       tokenizer |-> proc[r].tokenizer],
          !.nextId = @ + 1])

\* Trainer(model=disc, args=training_args, train_dataset=datasets,
\*         tokenizer=tokenizer)
InitTrainer(r) ==
  /\ proc[r].pc = "Trainer"
  /\ Advance(r, "train",
       [proc[r] EXCEPT
          !.trainer = [id |-> proc[r].nextId, model |-> proc[r].disc,
                       args |-> proc[r].training_args,
                       train_dataset |-> proc[r].datasets,
                       tokenizer |-> proc[r].tokenizer],
          !.nextId = @ + 1])

\* trainer.train() in a loop that calls it again when it raises
TrainRetry(r) ==
  /\ proc[r].pc = "train"
  /\ \/ Advance(r, "done", proc[r])
     \/ /\ Len(proc[r].trace) < Len(Order) + 1
        /\ Advance(r, "train", proc[r])

\* trainer.train(): returns, and main() returns after it, or raises
Train(r) ==
  /\ proc[r].pc = "train"
  /\ \/ Advance(r, "done", proc[r])
     \/ Raise(r, proc[r], "TrainingFailure")

Next ==
  \E r \in Runs :
    \/ ParseArgs(r)
    \/ BasicConfig(r)
    \/ SetLevel(r)
    \/ LogTrainingArgs(r)
    \/ SetSeed(r)
    \/ OpenGCS(r)
    \/ ArrowDataset(r)
    \/ ToTable(r)
    \/ WrapDataset(r)
    \/ ConfigPaths(r)
    \/ SelectModel(r)
    \/ LoadTokenizer(r)
    \/ InitGen(r)
    \/ InitDisc(r)
    \/ CountParams(r)
    \/ LogParams(r)
    \/ InitTrainer(r)
    \/ Train(r)

Spec == Init /\ [][Next]_vars

(* ------------------------------ properties ----------------------------- *)

Executed(r, stmt) == \E i \in 1..Len(proc[r].trace) : proc[r].trace[i] = stmt

Last(seq) == seq[Len(seq)]

IsPrefix(a, b) == Len(a) <= Len(b) /\ \A i \in 1..Len(a) : a[i] = b[i]

NoRepeat(seq) == \A i, j \in 1..Len(seq) : seq[i] = seq[j] => i = j

Position(seq, x) == CHOOSE i \in 1..Len(seq) : seq[i] = x

\* the class pairs as documented: <<generator class, discriminator class>>
AMCLRPair ==
  << [module |-> "src.amclr.model", name |-> "AMCLRMLM"],
     [module |-> "src.amclr.model", name |-> "AMCLR"] >>
AMOSPair ==
  << [module |-> "src.amclr.model_amos", name |-> "SimsMLM"],
     [module |-> "src.amclr.model_amos", name |-> "SimsElectra"] >>
ELECTRAPair ==
  << [module |-> "src.amclr.model_electra", name |-> "SimsMLM"],
     [module |-> "src.amclr.model_electra", name |-> "SimsElectra"] >>

DocumentedPair(type) ==
  CASE type = "AMCLR" -> AMCLRPair
    [] type = "AMOS" -> AMOSPair
    [] OTHER -> ELECTRAPair

SelectedPair(r) == <<proc[r].gen_model, proc[r].disc_model>>

DatasetStatements == {"gcsfs", "ds_dataset", "to_table", "Dataset"}
LookupStatements == {"tokenizer", "init_gen", "init_disc"}

\* C1: once the dispatch on model_type has run, the selected (generator,
\* discriminator) classes are the documented pair for the model_type that the
\* Configuration Loader accepted: AMCLR -> (AMCLRMLM, AMCLR) of src.amclr.model,
\* AMOS -> (SimsMLM, SimsElectra) of src.amclr.model_amos, ELECTRA and every
\* other accepted value -> (SimsMLM, SimsElectra) of src.amclr.model_electra.
C1_DocumentedPairSelected ==
  \A r \in Runs :
    Executed(r, "select_model") =>
      SelectedPair(r) = DocumentedPair(proc[r].model_args.model_type)

C1_Witness ==
  \E r \in Runs :
    /\ Executed(r, "select_model")
    /\ proc[r].model_args.model_type = "AMOS"
    /\ SelectedPair(r) = AMOSPair

\* C2 (as claimed): for a model_type outside {AMCLR, ELECTRA, AMOS} that got
\* through configuration parsing, no classes are selected, no generator or
\* discriminator is instantiated, the trainer is never started, and the run
\* ends in a ModelResolutionError once it reaches the dispatch.
C2_UnrecognizedTypeFails ==
  \A r \in Runs :
    (Executed(r, "parse_args") /\ argv.model_type \notin MODEL_TYPES) =>
      /\ proc[r].gen_model = NoClass /\ proc[r].disc_model = NoClass
      /\ proc[r].gen = NoObj /\ proc[r].disc = NoObj
      /\ ~Executed(r, "train")
      /\ Executed(r, "select_model") =>
           proc[r].pc = "failed" /\ proc[r].error = "ModelResolutionError"

\* C2 (amended): a model_type outside {AMCLR, ELECTRA, AMOS}, absent included,
\* is accepted by configuration parsing and never makes model resolution fail:
\* the dispatch itself never raises and selects the default ELECTRA pair as
\* the fallback; a ModelResolutionError comes only from one of the three
\* registry lookups, after the dispatch.
C2_UnrecognizedTypeFallsBack ==
  \A r \in Runs :
    argv.model_type \notin MODEL_TYPES =>
      /\ (proc[r].trace = <<"parse_args">> /\ argv.hp_ok) =>
           /\ proc[r].pc = "basicConfig"
           /\ proc[r].model_args.model_type = argv.model_type
      /\ Executed(r, "select_model") =>
           /\ SelectedPair(r) = ELECTRAPair
           /\ Last(proc[r].trace) = "select_model" => proc[r].pc = "tokenizer"
      /\ proc[r].error = "ModelResolutionError" =>
           /\ Last(proc[r].trace) \in LookupStatements
           /\ Executed(r, "select_model")

C2_Witness ==
  \E r \in Runs :
    /\ argv.model_type = "BERT"
    /\ proc[r].pc = "done"
    /\ proc[r].trainer.model.cls.module = "src.amclr.model_electra"
    /\ proc[r].trainer.model.generator.cls.module = "src.amclr.model_electra"

\* C3: for a model_size outside {small, base, large} the run fails in the
\* Configuration Loader with a ConfigurationError, and the remote filesystem
\* is never opened, the dataset never read, and no registry lookup is issued.
C3_InvalidSizeFailsBeforeNetwork ==
  \A r \in Runs :
    argv.model_size \notin MODEL_SIZES =>
      /\ ~Executed(r, "gcsfs") /\ proc[r].gcs = NoObj
      /\ proc[r].arrow_dataset = NoObj /\ proc[r].table = NoObj
      /\ proc[r].requests = <<>>
      /\ Executed(r, "parse_args") =>
           proc[r].pc = "failed" /\ proc[r].error = "ConfigurationError"

\* C4: when model_size, model_type or dataset_name is missing, the
\* Configuration Loader fails with a ConfigurationError and produces no
\* configuration records, so no later statement runs with a None field.
C4_MissingFieldFailsInLoader ==
  \A r \in Runs :
    (/\ None \in {argv.model_size, argv.model_type, argv.dataset_name}
     /\ Executed(r, "parse_args")) =>
        /\ proc[r].pc = "failed" /\ proc[r].error = "ConfigurationError"
        /\ proc[r].model_args = NoObj /\ proc[r].data_args = NoObj
        /\ proc[r].training_args = NoObj

\* C5: a failure of a Dataset Loader statement ends the run with a
\* DataLoadError, and in such a run no class is selected, no registry lookup
\* is issued, no tokenizer, generator, discriminator or trainer exists; and in
\* every run a generator or discriminator exists only once the dataset has
\* been materialized in full (every row of every file) and wrapped.
C5_DatasetBeforeModel ==
  \A r \in Runs :
    /\ (proc[r].pc = "failed" /\ Last(proc[r].trace) \in DatasetStatements) =>
         proc[r].error = "DataLoadError"
    /\ proc[r].error = "DataLoadError" =>
         /\ SelectedPair(r) = <<NoClass, NoClass>>
         /\ proc[r].requests = <<>>
         /\ proc[r].tokenizer = NoObj
         /\ proc[r].gen = NoObj /\ proc[r].disc = NoObj
         /\ proc[r].trainer = NoObj
    /\ (proc[r].gen # NoObj \/ proc[r].disc # NoObj) =>
         /\ proc[r].table # NoObj
         /\ proc[r].table.rows = Flatten(Store[argv.dataset_name])
         /\ Len(proc[r].table.rows) = NumFiles * RowsPerFile
         /\ proc[r].datasets # NoObj
         /\ proc[r].datasets.arrow_table = proc[r].table

C5_Witness ==
  \E r, q \in Runs :
    /\ proc[r].error = "DataLoadError" /\ Last(proc[r].trace) = "to_table"
    /\ proc[q].gen # NoObj

\* one step of any run, as C6 constrains it
C6_Step ==
  \A r \in Runs :
    /\ proc[r].pc \in {"failed", "done"} => proc'[r] = proc[r]
    /\ NoRepeat(proc'[r].trace)
    /\ (proc'[r].pc = "failed" /\ proc[r].pc # "failed") =>
         /\ proc'[r].error # "none"
         /\ proc'[r].trace = Append(proc[r].trace, proc[r].pc)
    /\ proc'[r].error # "none" <=> proc'[r].pc = "failed"
    /\ proc'[r].pc = "done" =>
         /\ proc'[r].trace = Order
         /\ proc[r].pc \in {"train", "done"}

\* C6: nothing is caught or retried: a run that has failed or exited stays as
\* it is; no statement runs twice; a failed run carries the error of the
\* statement it stopped at, which is the last one it ran; an error always
\* means the failed state; and the normal exit is reached only from
\* trainer.train() returning, with every statement run once, in order.
C6_NoCatchNoRetry == [][C6_Step]_vars

C6_Witness ==
  \E r, q \in Runs :
    /\ proc[r].pc = "failed" /\ proc[r].error = "TrainingFailure"
    /\ proc[q].pc = "done"

\* C7: the generator class and the discriminator class are bound together and
\* are one of the three documented pairs, so both come from one module; runs
\* with the same model_type select the same pair; the generator is
\* instantiated before the discriminator, each from its selected class; and a
\* discriminator always holds the generator instance of its run, of its own
\* family.
C7_OnePairNeverMixed ==
  /\ \A r \in Runs :
       /\ SelectedPair(r) \in {<<NoClass, NoClass>>, AMCLRPair, AMOSPair, ELECTRAPair}
       /\ SelectedPair(r) # <<NoClass, NoClass>> <=> Executed(r, "select_model")
       /\ proc[r].gen # NoObj =>
            /\ proc[r].gen.cls = proc[r].gen_model
            /\ Executed(r, "init_gen")
       /\ Executed(r, "init_disc") => Executed(r, "init_gen")
       /\ proc[r].disc # NoObj =>
            /\ proc[r].gen # NoObj
            /\ proc[r].disc.cls = proc[r].disc_model
            /\ proc[r].disc.generator = proc[r].gen
            /\ proc[r].disc.generator.cls.module = proc[r].disc.cls.module
            /\ proc[r].disc.id > proc[r].gen.id
  /\ \A r, q \in Runs :
       (Executed(r, "select_model") /\ Executed(q, "select_model")) =>
         SelectedPair(r) = SelectedPair(q)

C7_Witness ==
  \E r \in Runs :
    /\ proc[r].disc # NoObj
    /\ proc[r].disc.generator = proc[r].gen
    /\ <<proc[r].gen.cls, proc[r].disc.cls>> = AMOSPair

C9_LinearOrderSeedFirst ==
  \A r \in Runs :
    /\ IsPrefix(proc[r].trace, Order)
    /\ proc[r].pc \notin {"failed", "done"} =>
         /\ Len(proc[r].trace) < Len(Order)
         /\ proc[r].pc = Order[Len(proc[r].trace) + 1]
    /\ proc[r].stdout # <<>> =>
         /\ proc[r].handlers
         /\ Executed(r, "basicConfig")
         /\ proc[r].stdout[1].msg = "Training/evaluation parameters"
    /\ (Executed(r, "gcsfs") \/ proc[r].requests # <<>>) =>
         proc[r].rng = Seeded(argv.seed)
    /\ proc[r].gen # NoObj => proc[r].gen.init_rng = Seeded(argv.seed)
    /\ proc[r].disc # NoObj => proc[r].disc.init_rng = Seeded(argv.seed)

C9_Witness ==
  \E r \in Runs :
    /\ proc[r].disc # NoObj
    /\ proc[r].disc.init_rng = Seeded(1)
    /\ Len(proc[r].stdout) = 1

\* C10: the trainer wraps the objects of its own run: the discriminator
\* instance (holding the generator) as model, the parsed training arguments,
\* the dataset object built by the Dataset Loader, with every row of the
\* stored files, and the loaded tokenizer; and trainer.train() is invoked only
\* with that trainer in place and after the discriminator's parameter count,
\* formatted in units of 2^20, has been written to the log.
C10_TrainerWrapsRunObjects ==
  \A r \in Runs :
    /\ proc[r].trainer # NoObj =>
         /\ proc[r].disc # NoObj /\ proc[r].trainer.model = proc[r].disc
         /\ proc[r].trainer.model.generator = proc[r].gen
         /\ proc[r].trainer.args = proc[r].training_args
         /\ proc[r].trainer.args.seed = argv.seed
         /\ proc[r].datasets # NoObj
         /\ proc[r].trainer.train_dataset = proc[r].datasets
         /\ proc[r].trainer.train_dataset.arrow_table.rows
              = Flatten(Store[argv.dataset_name])
         /\ proc[r].tokenizer # NoObj
         /\ proc[r].trainer.tokenizer = proc[r].tokenizer
    /\ Executed(r, "train") =>
         /\ proc[r].trainer # NoObj
         /\ Executed(r, "log_params")
         /\ Position(proc[r].trace, "log_params") < Position(proc[r].trace, "train")
         /\ proc[r].n_params = Numel(proc[r].disc)
         /\ Last(proc[r].stdout) =
              [msg |-> "Training new model from scratch - Total size",
               value |-> FormatM(Numel(proc[r].trainer.model))]

C10_Witness ==
  \E r \in Runs :
    /\ proc[r].pc = "done"
    /\ proc[r].trainer.model = proc[r].disc
    /\ Last(proc[r].stdout).value = 2584

====
